---- MODULE Spec2Model ----
(***************************************************************************)
(* Model of flaskCarculator/lca.py: the parameter override and derivation  *)
(* pipeline run by initialize_model for one vehicle configuration request. *)
(*                                                                         *)
(* The vehicle parameter table (an xarray DataArray) is a function         *)
(*     powertrain -> parameter -> number                                   *)
(* The size and year axes hold the single coordinate selected by the       *)
(* request (scope at line 122, interp at line 124), so a cell is addressed *)
(* by its powertrain and parameter.                                        *)
(*                                                                         *)
(* Numbers of the table are floats.  They are modelled as exact fractions  *)
(* <<n, d>> with d > 0 in lowest terms, and the IEEE special values as     *)
(* fractions of denominator 0: <<1,0>> = +inf, <<-1,0>> = -inf,            *)
(* <<0,0>> = NaN.  Rounding and the sign of zero are not modelled.         *)
(***************************************************************************)
EXTENDS Integers, Sequences, FiniteSets, TLC

VARIABLES
    params,     \* the request dictionary (a function from its keys)
    pc,         \* state of the run (see NextStage)
    array,      \* the vehicle parameter table
    kwargs,     \* keyword arguments the model was constructed with
    trace,      \* stages invoked so far, in order, each with the parameters it wrote
    err,        \* the exception that left initialize_model, if any
    errors,     \* what validate_output_data returned
    results,    \* m.results: "none" until the impact result is attached
    returned,   \* TRUE once initialize_model has returned the model
    prev,       \* the table as it was when the latest stage began
    solved      \* the table as m.set_all() left it

vars == <<params, pc, array, kwargs, trace, err, errors, results, returned, prev, solved>>

----------------------------------------------------------------------------
(* Bounds of the model *)

\* at most this many optional fields of a request are omitted or zero
MaxDeviations == 1
\* the solver's range of a powertrain is one of 0..MaxRange
MaxRange == 1
\* the curb mass left by a mass computation is one of 1..MaxMass
MaxMass == 2
\* the validator returns at most this many violations
MaxViolations == 2

----------------------------------------------------------------------------
(* Float arithmetic *)

Abs(n) == IF n < 0 THEN -n ELSE n

Sign(n) == IF n < 0 THEN -1 ELSE IF n > 0 THEN 1 ELSE 0

RECURSIVE GCD(_, _)
GCD(a, b) == IF b = 0 THEN a ELSE GCD(b, a % b)

\* the fraction n/d, d # 0, in lowest terms with a positive denominator
Norm(n, d) ==
    LET g == GCD(Abs(n), Abs(d))
        s == IF d < 0 THEN -1 ELSE 1
    IN  <<(s * n) \div g, Abs(d) \div g>>

Num(k) == <<k, 1>>

NaN == <<0, 0>>

Inf(s) == <<s, 0>>

IsNaN(x) == x = NaN

IsFinite(x) == x[2] # 0

IsZero(x) == x[2] # 0 /\ x[1] = 0

FNeg(x) == <<-x[1], x[2]>>

FAdd(x, y) ==
    IF IsNaN(x) \/ IsNaN(y) THEN NaN
    ELSE IF IsFinite(x) /\ IsFinite(y) THEN Norm(x[1] * y[2] + y[1] * x[2], x[2] * y[2])
    ELSE IF IsFinite(x) THEN y
    ELSE IF IsFinite(y) THEN x
    ELSE IF x = y THEN x ELSE NaN

FSub(x, y) == FAdd(x, FNeg(y))

FMul(x, y) ==
    IF IsNaN(x) \/ IsNaN(y) THEN NaN
    ELSE IF IsFinite(x) /\ IsFinite(y) THEN Norm(x[1] * y[1], x[2] * y[2])
    ELSE IF IsZero(x) \/ IsZero(y) THEN NaN
    ELSE Inf(Sign(x[1]) * Sign(y[1]))

\* numpy division: a zero divisor gives inf or nan (and a warning), no exception
FDiv(x, y) ==
    IF IsNaN(x) \/ IsNaN(y) THEN NaN
    ELSE IF IsZero(y) THEN (IF IsZero(x) THEN NaN ELSE Inf(Sign(x[1])))
    ELSE IF ~IsFinite(y) THEN (IF IsFinite(x) THEN Num(0) ELSE NaN)
    ELSE IF ~IsFinite(x) THEN Inf(Sign(x[1]) * Sign(y[1]))
    ELSE Norm(x[1] * y[2], x[2] * y[1])

\* Python's a / b on two request numbers, b # 0 (b = 0 raises ZeroDivisionError)
PyDiv(a, b) == Norm(a, b)

----------------------------------------------------------------------------
(* The request *)

VehicleTypes == {"car", "truck", "bus", "two_wheeler"}

Hybrids == {"HEV-d", "HEV-p"}

Combustion == {"ICEV-d", "ICEV-p", "ICEV-g"}

Electric == {"BEV", "FCEV"}

Plugins == {"PHEV-d", "PHEV-p"}

ChargeSustaining == {"PHEV-c-d", "PHEV-c-p"}

Powertrains == Hybrids \cup Combustion \cup Electric \cup Plugins \cup ChargeSustaining

OptionalFields ==
    {"fuel tank volume", "driving mass", "TtW energy", "fuel consumption",
     "electricity consumption", "range", "electric energy stored", "curb mass",
     "power", "primary power", "primary_engine_power", "total_engine_power",
     "battery technology"}

\* the positive value a request gives a field it supplies
FieldValue(f) ==
    CASE f = "fuel tank volume" -> 50
      [] f = "driving mass" -> 7
      [] f = "TtW energy" -> 9
      [] f = "fuel consumption" -> 6
      [] f = "electricity consumption" -> 15
      [] f = "range" -> 3
      [] f = "electric energy stored" -> 12
      [] f = "curb mass" -> 2
      [] f = "power" -> 8
      [] f = "primary power" -> 5
      [] f = "primary_engine_power" -> 60
      [] f = "total_engine_power" -> 100
      [] f = "battery technology" -> 1

\* a request: the four required keys, and the optional fields not in `omitted`,
\* those in `zeroed` with value 0
Request(vt, pt, omitted, zeroed) ==
    [k \in {"vehicle_type", "powertrain", "size", "year"} \cup (OptionalFields \ omitted) |->
        CASE k = "vehicle_type" -> vt
          [] k = "powertrain" -> pt
          [] k = "size" -> "Medium"
          [] k = "year" -> 2020
          [] OTHER -> IF k \in zeroed THEN 0 ELSE FieldValue(k)]

\* the sets of at most MaxDeviations optional fields
Deviations == {S \in SUBSET OptionalFields : Cardinality(S) <= MaxDeviations}

Requests ==
    UNION {{Request(vt, pt, dev \ zeroed, zeroed) : zeroed \in SUBSET dev} :
        vt \in VehicleTypes, pt \in Powertrains, dev \in Deviations}

\* params.get(key, 0)
Get(p, key) == IF key \in DOMAIN p THEN p[key] ELSE 0

----------------------------------------------------------------------------
(* The vehicle parameter table *)

Parameters ==
    {"combustion power share", "fuel mass", "driving mass", "TtW energy",
     "fuel consumption", "electricity consumption", "range", "electric energy stored",
     "glider base mass", "curb mass", "combustion power", "electric power", "power"}

EmptyTable == [pt \in {} |-> [p \in {} |-> NaN]]

\* array.loc[dict(parameter=param)] = value : the powertrain is left out of the
\* key, so the write reaches every powertrain of the table
SetParameter(a, param, value) ==
    [pt \in DOMAIN a |-> [a[pt] EXCEPT ![param] = value]]

\* array.loc[dict(powertrain=pt, parameter=param)] = value
SetCell(a, pt, param, value) ==
    [a EXCEPT ![pt] = [a[pt] EXCEPT ![param] = value]]

\* the charge-sustaining counterpart the adjuster reads for a plug-in powertrain
Counterpart(pt) == IF pt = "PHEV-p" THEN "PHEV-c-p" ELSE "PHEV-c-d"

\* the powertrains of the table built for a request: the requested one, and for a
\* plug-in hybrid the two variants the solver combines into it
TablePowertrains(pt) ==
    IF pt \in Plugins THEN {pt, Counterpart(pt), "PHEV-e"} ELSE {pt}

\* the static input parameters, restricted to the request's scope and year
BaseValue(pt, param) ==
    CASE param = "combustion power share" -> <<1, 2>>
      [] param = "fuel mass" -> Num(40)
      [] param = "glider base mass" -> Num(30)
      [] param = "electric energy stored" -> Num(20)
      [] OTHER -> Num(0)

BaseTable(p) ==
    [pt \in TablePowertrains(p["powertrain"]) |-> [param \in Parameters |-> BaseValue(pt, param)]]

----------------------------------------------------------------------------
(* set_combustion_power_share *)

NoError == [type |-> "none", stage |-> "none", key |-> "", violations |-> <<>>]

KeyError(stage, key) ==
    [type |-> "KeyError", stage |-> stage, key |-> key, violations |-> <<>>]

ZeroDivisionError(stage) ==
    [type |-> "ZeroDivisionError", stage |-> stage, key |-> "", violations |-> <<>>]

\* ShareFailure with a fault: a zero total_engine_power is not noticed
ShareFailureZeroUnchecked(p) ==
    IF p["powertrain"] \notin Hybrids THEN NoError
    ELSE IF "primary_engine_power" \notin DOMAIN p THEN KeyError("classify", "primary_engine_power")
    ELSE IF "total_engine_power" \notin DOMAIN p THEN KeyError("classify", "total_engine_power")
    ELSE NoError

\* the exception line 39 raises while it evaluates its right-hand side, before
\* anything is assigned
ShareFailure(p) ==
    IF p["powertrain"] \notin Hybrids THEN NoError
    ELSE IF "primary_engine_power" \notin DOMAIN p THEN KeyError("classify", "primary_engine_power")
    ELSE IF "total_engine_power" \notin DOMAIN p THEN KeyError("classify", "total_engine_power")
    ELSE IF p["total_engine_power"] = 0 THEN ZeroDivisionError("classify")
    ELSE NoError

\* the parameters set_combustion_power_share assigns
ShareWrites(p) ==
    IF p["powertrain"] \in Hybrids \cup Combustion \cup Electric
    THEN {"combustion power share"} ELSE {}

\* set_combustion_power_share with a fault: the quotient is taken the wrong way round
set_combustion_power_share_Inverted(a, p) ==
    IF p["powertrain"] \in Hybrids
    THEN SetParameter(a, "combustion power share",
                      PyDiv(p["total_engine_power"], p["primary_engine_power"]))
    ELSE IF p["powertrain"] \in Combustion
    THEN SetParameter(a, "combustion power share", Num(1))
    ELSE IF p["powertrain"] \in Electric
    THEN SetParameter(a, "combustion power share", Num(0))
    ELSE a

\* set_combustion_power_share with a fault: the plug-in family is classified as
\* pure combustion
set_combustion_power_share_PluginAsCombustion(a, p) ==
    IF p["powertrain"] \in Hybrids
    THEN SetParameter(a, "combustion power share",
                      PyDiv(p["primary_engine_power"], p["total_engine_power"]))
    ELSE IF p["powertrain"] \in Combustion \cup Plugins \cup ChargeSustaining
    THEN SetParameter(a, "combustion power share", Num(1))
    ELSE IF p["powertrain"] \in Electric
    THEN SetParameter(a, "combustion power share", Num(0))
    ELSE a

set_combustion_power_share(a, p) ==
    IF p["powertrain"] \in Hybrids
    THEN SetParameter(a, "combustion power share",
                      PyDiv(p["primary_engine_power"], p["total_engine_power"]))
    ELSE IF p["powertrain"] \in Combustion
    THEN SetParameter(a, "combustion power share", Num(1))
    ELSE IF p["powertrain"] \in Electric
    THEN SetParameter(a, "combustion power share", Num(0))
    ELSE a

----------------------------------------------------------------------------
(* set_vehicle_properties_before_run *)

\* FUEL_SPECS[powertrain]["density"], kg per litre
FuelDensity(pt) ==
    CASE pt \in {"ICEV-d", "HEV-d", "PHEV-d", "PHEV-c-d"} -> <<17, 20>>
      [] pt \in {"ICEV-p", "HEV-p", "PHEV-p", "PHEV-c-p"} -> <<3, 4>>
      [] OTHER -> <<1, 2>>

BeforeRunWrites(p) ==
    IF Get(p, "fuel tank volume") > 0 THEN {"fuel mass"} ELSE {}

set_vehicle_properties_before_run(a, p) ==
    IF Get(p, "fuel tank volume") > 0
    THEN SetParameter(a, "fuel mass",
                      FMul(Num(p["fuel tank volume"]), FuelDensity(p["powertrain"])))
    ELSE a

----------------------------------------------------------------------------
(* set_vehicle_properties_after_run *)

\* the request fields of the post-run pass; each names the parameter it overrides
AfterRunFields ==
    {"driving mass", "TtW energy", "fuel consumption", "electricity consumption", "range"}

\* the value the pass stores for a field: consumptions are given per 100 km
AfterRunValue(p, f) ==
    IF f \in {"fuel consumption", "electricity consumption"}
    THEN PyDiv(p[f], 100)
    ELSE Num(p[f])

\* the parameters the pass assigns: those whose field is present and > 0
AfterRunWrites(p) == {f \in AfterRunFields : Get(p, f) > 0}

\* the post-run pass with a fault: an override is added to the table's value
set_vehicle_properties_after_run_Accumulating(a, p) ==
    [pt \in DOMAIN a |->
        [param \in Parameters |->
            IF param \in AfterRunWrites(p)
            THEN FAdd(a[pt][param], AfterRunValue(p, param)) ELSE a[pt][param]]]

\* the post-run pass with a fault: an override is written at the requested
\* powertrain only
set_vehicle_properties_after_run_RequestedOnly(a, p) ==
    [pt \in DOMAIN a |->
        [param \in Parameters |->
            IF param \in AfterRunWrites(p) /\ pt = p["powertrain"]
            THEN AfterRunValue(p, param) ELSE a[pt][param]]]

\* the five assignments touch five different parameters, so their order does
\* not show in the result
set_vehicle_properties_after_run(a, p) ==
    [pt \in DOMAIN a |->
        [param \in Parameters |->
            IF param \in AfterRunWrites(p) THEN AfterRunValue(p, param) ELSE a[pt][param]]]

----------------------------------------------------------------------------
(* set_properties_for_plugin *)

\* The statements of the adjuster, in order:
\*   1..4  lines 85-88   5  line 89   6..8  lines 91-93
\*   9  lines 94-95 (mass recomputation)   10  line 96   11  lines 98-106
PluginStatements == 1..11

\* the request keys a statement subscripts, in the order it evaluates them
PluginKeys(i) ==
    CASE i = 1 -> <<"electricity consumption">>
      [] i = 2 -> <<"fuel consumption">>
      [] i = 3 -> <<"TtW energy">>
      [] i = 4 -> <<"electric energy stored">>
      [] i = 5 -> <<"curb mass">>
      [] i = 6 -> <<"primary power">>
      [] i = 7 -> <<"power", "primary power">>
      [] i = 8 -> <<"power">>
      [] i = 10 -> <<"driving mass">>
      [] OTHER -> <<>>

\* the parameters a statement assigns
PluginStatementWrites(i) ==
    CASE i = 1 -> {"electricity consumption"}
      [] i = 2 -> {"fuel consumption"}
      [] i = 3 -> {"TtW energy"}
      [] i = 4 -> {"electric energy stored"}
      [] i = 5 -> {"glider base mass"}
      [] i = 6 -> {"combustion power"}
      [] i = 7 -> {"electric power"}
      [] i = 8 -> {"power"}
      [] i = 9 -> {"curb mass", "driving mass"}
      [] i = 10 -> {"driving mass"}
      [] i = 11 -> {"fuel mass"}

\* the first key of `keys` the request lacks, "" if it has them all
FirstMissing(p, keys) ==
    IF \A j \in 1..Len(keys) : keys[j] \in DOMAIN p THEN ""
    ELSE keys[CHOOSE j \in 1..Len(keys) :
                 /\ keys[j] \notin DOMAIN p
                 /\ \A k \in 1..(j - 1) : keys[k] \in DOMAIN p]

\* the statements that raise KeyError on this request
PluginFailing(p) == {i \in PluginStatements : FirstMissing(p, PluginKeys(i)) # ""}

\* the statement at which the adjuster stops with KeyError, 0 if it completes
PluginFailsAt(p) ==
    IF PluginFailing(p) = {} THEN 0
    ELSE CHOOSE i \in PluginFailing(p) : \A j \in PluginFailing(p) : i <= j

\* model.set_vehicle_mass(); model.set_component_masses(): the solver's own
\* recomputation, which leaves curb mass c on every powertrain and derives the
\* driving mass from it
RecomputeMasses(a, c) ==
    SetParameter(SetParameter(a, "curb mass", Num(c)), "driving mass", Num(c + 1))

\* lines 98-105
RatioRange(a, pt) == FDiv(a[Counterpart(pt)]["range"], a[pt]["range"])

\* lines 98-106
AdjustFuelMass(a, pt) ==
    SetCell(a, pt, "fuel mass", FDiv(a[pt]["fuel mass"], RatioRange(a, pt)))

\* line 89 with a fault: the delta is assigned, not added
AdjustGliderMassAssigned(a, p) ==
    LET pt == p["powertrain"]
    IN  SetCell(a, pt, "glider base mass", FSub(Num(p["curb mass"]), a[pt]["curb mass"]))

\* line 89
AdjustGliderMass(a, p) ==
    LET pt == p["powertrain"]
    IN  SetCell(a, pt, "glider base mass",
                FAdd(a[pt]["glider base mass"], FSub(Num(p["curb mass"]), a[pt]["curb mass"])))

\* statement i applied to table a; c is the curb mass the recomputation leaves
PluginStatement(i, a, p, c) ==
    LET pt == p["powertrain"]
    IN  CASE i = 1 -> SetCell(a, pt, "electricity consumption", PyDiv(p["electricity consumption"], 100))
          [] i = 2 -> SetCell(a, pt, "fuel consumption", PyDiv(p["fuel consumption"], 100))
          [] i = 3 -> SetCell(a, pt, "TtW energy", Num(p["TtW energy"]))
          [] i = 4 -> SetCell(a, pt, "electric energy stored", Num(p["electric energy stored"]))
          [] i = 5 -> AdjustGliderMass(a, p)
          [] i = 6 -> SetCell(a, pt, "combustion power", Num(p["primary power"]))
          [] i = 7 -> SetCell(a, pt, "electric power", Num(p["power"] - p["primary power"]))
          [] i = 8 -> SetCell(a, pt, "power", Num(p["power"]))
          [] i = 9 -> RecomputeMasses(a, c)
          [] i = 10 -> SetParameter(a, "driving mass", Num(p["driving mass"]))
          [] i = 11 -> AdjustFuelMass(a, pt)

\* the table after the first n statements
RECURSIVE PluginUpTo(_, _, _, _)
PluginUpTo(n, a, p, c) ==
    IF n = 0 THEN a ELSE PluginStatement(n, PluginUpTo(n - 1, a, p, c), p, c)

\* the statements the adjuster completes on this request
PluginCompleted(p) ==
    IF PluginFailsAt(p) = 0 THEN Cardinality(PluginStatements) ELSE PluginFailsAt(p) - 1

PluginWrites(p) == UNION {PluginStatementWrites(i) : i \in 1..PluginCompleted(p)}

\* the table the adjuster leaves, whether it returns or raises
set_properties_for_plugin(a, p, c) == PluginUpTo(PluginCompleted(p), a, p, c)

----------------------------------------------------------------------------
(* initialize_model *)

\* NextStage with a fault: the solver runs before the pre-run pass
NextStageSolverFirst(s, p) ==
    LET afterAdjust == IF p["vehicle_type"] = "car" THEN "drop_hybrid" ELSE "validate"
    IN  CASE s = "UNINITIALIZED" -> "load"
          [] s = "RAW_LOADED" -> "classify"
          [] s = "BASE_PARAMETERS_LOADED" -> "construct"
          [] s = "MODEL_CONSTRUCTED" -> "solve"
          [] s = "SOLVED" -> "pre_run"
          [] s = "PRE_RUN_OVERRIDES_APPLIED" -> "post_run"
          [] s = "POST_RUN_OVERRIDES_APPLIED" ->
                IF p["powertrain"] \in Plugins THEN "plugin" ELSE afterAdjust
          [] s = "PLUGIN_ADJUSTED" -> afterAdjust
          [] s = "HYBRID_DROPPED" -> "validate"
          [] s = "VALIDATED" -> "impacts"
          [] OTHER -> "none"

\* the stage initialize_model runs next from state s, "none" when the run is over
NextStage(s, p) ==
    LET afterAdjust == IF p["vehicle_type"] = "car" THEN "drop_hybrid" ELSE "validate"
    IN  CASE s = "UNINITIALIZED" -> "load"
          [] s = "RAW_LOADED" -> "classify"
          [] s = "BASE_PARAMETERS_LOADED" -> "construct"
          [] s = "MODEL_CONSTRUCTED" -> "pre_run"
          [] s = "PRE_RUN_OVERRIDES_APPLIED" -> "solve"
          [] s = "SOLVED" -> "post_run"
          [] s = "POST_RUN_OVERRIDES_APPLIED" ->
                IF p["powertrain"] \in Plugins THEN "plugin" ELSE afterAdjust
          [] s = "PLUGIN_ADJUSTED" -> afterAdjust
          [] s = "HYBRID_DROPPED" -> "validate"
          [] s = "VALIDATED" -> "impacts"
          [] OTHER -> "none"

Invoked(stage, wrote) == Append(trace, [stage |-> stage, wrote |-> wrote])

\* the key used for the model's keyword arguments
Coordinate(p) == <<p["powertrain"], p["size"], p["year"]>>

NoArguments ==
    [constructed |-> FALSE, coordinate |-> <<>>, capacity |-> 0, electric |-> 0,
     power |-> 0, target_mass |-> 0, energy_consumption |-> 0, drop_hybrids |-> FALSE]

\* lines 127-172; 0 stands for an argument left None
ModelArguments(p) ==
    [constructed |-> TRUE,
     coordinate |-> Coordinate(p),
     capacity |-> IF Get(p, "electric energy stored") > 0 THEN p["electric energy stored"] ELSE 0,
     electric |-> IF Get(p, "battery technology") # 0 THEN p["battery technology"] ELSE 0,
     power |-> IF Get(p, "power") > 0 THEN p["power"] ELSE 0,
     target_mass |-> IF Get(p, "curb mass") > 0 THEN p["curb mass"] ELSE 0,
     energy_consumption |-> IF Get(p, "TtW energy") > 0 THEN p["TtW energy"] ELSE 0,
     drop_hybrids |-> FALSE]

\* the powertrains whose range the solver's outcome is enumerated for: every one
\* but the electric-only variant of a plug-in hybrid, which this program never reads
Ranged(a) == DOMAIN a \ {"PHEV-e"}

\* m.set_all(): the solver fills in the derived parameters; its range per
\* powertrain and its curb mass are not determined by this program
SolverTable(a, rng, c) ==
    [pt \in DOMAIN a |->
        [param \in Parameters |->
            CASE param = "range" -> IF pt \in DOMAIN rng THEN Num(rng[pt]) ELSE Num(1)
              [] param = "curb mass" -> Num(c)
              [] param = "driving mass" -> Num(c + 1)
              [] param = "TtW energy" -> Num(25)
              [] param = "fuel consumption" -> <<1, 20>>
              [] param = "electricity consumption" -> <<1, 5>>
              [] param = "combustion power" -> Num(70)
              [] param = "electric power" -> Num(30)
              [] param = "power" -> Num(100)
              [] OTHER -> a[pt][param]]]

SolverWrites ==
    {"range", "curb mass", "driving mass", "TtW energy", "fuel consumption",
     "electricity consumption", "combustion power", "electric power", "power"}

\* m.drop_hybrid(): the variants used only to build the plug-in hybrid leave the table
Dropped == {"PHEV-e", "PHEV-c-p", "PHEV-c-d"}

drop_hybrid(a) == [pt \in DOMAIN a \ Dropped |-> a[pt]]

\* ValidationError with a fault: only the first violation is reported
ValidationErrorFirstOnly(violations) ==
    [type |-> "ValueError", stage |-> "validate", key |-> "", violations |-> <<violations[1]>>]

\* raise ValueError(f"Validation failed: {errors}")
ValidationError(violations) ==
    [type |-> "ValueError", stage |-> "validate", key |-> "", violations |-> violations]

SolverError == [type |-> "SolverError", stage |-> "solve", key |-> "", violations |-> <<>>]

Init ==
    /\ params \in Requests
    /\ pc = "UNINITIALIZED"
    /\ array = EmptyTable
    /\ kwargs = NoArguments
    /\ trace = <<>>
    /\ err = NoError
    /\ errors = <<>>
    /\ results = "none"
    /\ returned = FALSE
    /\ prev = EmptyTable
    /\ solved = EmptyTable

\* lines 115-124
Load ==
    /\ NextStage(pc, params) = "load"
    /\ array' = BaseTable(params)
    /\ prev' = array
    /\ trace' = Invoked("load", Parameters)
    /\ pc' = "RAW_LOADED"
    /\ UNCHANGED <<params, kwargs, err, errors, results, returned, solved>>

\* line 125
Classify ==
    /\ NextStage(pc, params) = "classify"
    /\ prev' = array
    /\ IF ShareFailure(params) = NoError
       THEN /\ array' = set_combustion_power_share(array, params)
            /\ trace' = Invoked("classify", ShareWrites(params))
            /\ pc' = "BASE_PARAMETERS_LOADED"
            /\ err' = err
       ELSE /\ array' = array
            /\ trace' = Invoked("classify", {})
            /\ pc' = "FAILED"
            /\ err' = ShareFailure(params)
    /\ UNCHANGED <<params, kwargs, errors, results, returned, solved>>

\* lines 127-172
Construct ==
    /\ NextStage(pc, params) = "construct"
    /\ kwargs' = ModelArguments(params)
    /\ prev' = array
    /\ trace' = Invoked("construct", {})
    /\ pc' = "MODEL_CONSTRUCTED"
    /\ UNCHANGED <<params, array, err, errors, results, returned, solved>>

\* line 174
PreRun ==
    /\ NextStage(pc, params) = "pre_run"
    /\ array' = set_vehicle_properties_before_run(array, params)
    /\ prev' = array
    /\ trace' = Invoked("pre_run", BeforeRunWrites(params))
    /\ pc' = "PRE_RUN_OVERRIDES_APPLIED"
    /\ UNCHANGED <<params, kwargs, err, errors, results, returned, solved>>

\* line 176
Solve ==
    /\ NextStage(pc, params) = "solve"
    /\ \E rng \in [Ranged(array) -> 0..MaxRange], c \in 1..MaxMass :
          /\ array' = SolverTable(array, rng, c)
          /\ solved' = SolverTable(array, rng, c)
    /\ prev' = array
    /\ trace' = Invoked("solve", SolverWrites)
    /\ pc' = "SOLVED"
    /\ UNCHANGED <<params, kwargs, err, errors, results, returned>>

\* line 176, the solver raising
SolveFails ==
    /\ NextStage(pc, params) = "solve"
    /\ prev' = array
    /\ trace' = Invoked("solve", {})
    /\ pc' = "FAILED"
    /\ err' = SolverError
    /\ UNCHANGED <<params, array, kwargs, errors, results, returned, solved>>

\* line 178
PostRun ==
    /\ NextStage(pc, params) = "post_run"
    /\ array' = set_vehicle_properties_after_run(array, params)
    /\ prev' = array
    /\ trace' = Invoked("post_run", AfterRunWrites(params))
    /\ pc' = "POST_RUN_OVERRIDES_APPLIED"
    /\ UNCHANGED <<params, kwargs, err, errors, results, returned, solved>>

\* lines 180-181
Plugin ==
    /\ NextStage(pc, params) = "plugin"
    /\ \E c \in 1..MaxMass : array' = set_properties_for_plugin(array, params, c)
    /\ prev' = array
    /\ trace' = Invoked("plugin", PluginWrites(params))
    /\ IF PluginFailsAt(params) = 0
       THEN pc' = "PLUGIN_ADJUSTED" /\ err' = err
       ELSE /\ pc' = "FAILED"
            /\ err' = KeyError("plugin", FirstMissing(params, PluginKeys(PluginFailsAt(params))))
    /\ UNCHANGED <<params, kwargs, errors, results, returned, solved>>

\* lines 183-184
DropHybrid ==
    /\ NextStage(pc, params) = "drop_hybrid"
    /\ array' = drop_hybrid(array)
    /\ prev' = array
    /\ trace' = Invoked("drop_hybrid", {})
    /\ pc' = "HYBRID_DROPPED"
    /\ UNCHANGED <<params, kwargs, err, errors, results, returned, solved>>

\* lines 186-189
Validate ==
    /\ NextStage(pc, params) = "validate"
    /\ \E n \in 0..MaxViolations :
          /\ errors' = [i \in 1..n |-> i]
          /\ IF n = 0
             THEN pc' = "VALIDATED" /\ err' = err
             ELSE pc' = "REJECTED" /\ err' = ValidationError([i \in 1..n |-> i])
    /\ prev' = array
    /\ trace' = Invoked("validate", {})
    /\ UNCHANGED <<params, array, kwargs, results, returned, solved>>

\* lines 191-196
Impacts ==
    /\ NextStage(pc, params) = "impacts"
    /\ results' = "value 0"
    /\ returned' = TRUE
    /\ prev' = array
    /\ trace' = Invoked("impacts", {})
    /\ pc' = "DONE"
    /\ UNCHANGED <<params, array, kwargs, err, errors, solved>>

Next ==
    \/ Load
    \/ Classify
    \/ Construct
    \/ PreRun
    \/ Solve
    \/ SolveFails
    \/ PostRun
    \/ Plugin
    \/ DropHybrid
    \/ Validate
    \/ Impacts

Spec == Init /\ [][Next]_vars

----------------------------------------------------------------------------
(* Vocabulary of the properties *)

StagesInvoked == {trace[i].stage : i \in 1..Len(trace)}

\* the stages that change the table after the model is built
MutationStages(p) ==
    {"pre_run", "solve", "post_run"}
        \cup (IF p["powertrain"] \in Plugins THEN {"plugin"} ELSE {})
        \cup (IF p["vehicle_type"] = "car" THEN {"drop_hybrid"} ELSE {})

\* the order of the stages of a complete run for request p
ExpectedOrder(p) ==
    <<"load", "classify", "construct", "pre_run", "solve", "post_run">>
        \o (IF p["powertrain"] \in Plugins THEN <<"plugin">> ELSE <<>>)
        \o (IF p["vehicle_type"] = "car" THEN <<"drop_hybrid">> ELSE <<>>)
        \o <<"validate", "impacts">>

\* the Python exceptions that stand for the error categories of the design
InvalidOverrideError == {"ZeroDivisionError", "KeyError"}

DegenerateRatioError == {"ZeroDivisionError"}

\* x is the float a / b, for integers a and b > 0
IsQuotient(x, a, b) == x[2] > 0 /\ x[1] * b = a * x[2]

\* field f of the request is omitted or zero
NotSupplied(p, f) == f \notin DOMAIN p \/ p[f] = 0

\* every mutation stage of the run is behind it
MutationsDone ==
    \/ NextStage(pc, params) \in {"validate", "impacts"}
    \/ pc \in {"REJECTED", "DONE"}

----------------------------------------------------------------------------
(* C1 *)

\* C1: whenever the validator returned a non-empty violation list the run is in
\* the terminal REJECTED state, the exception raised carries every violation
\* returned, the impact calculator was never invoked, no result is attached, no
\* model is returned, and every mutation stage of the request ran before the
\* validator was called.
C1_ValidationGate ==
    errors # <<>> =>
        /\ pc = "REJECTED"
        /\ NextStage(pc, params) = "none"
        /\ err.type = "ValueError"
        /\ err.stage = "validate"
        /\ err.violations = errors
        /\ "impacts" \notin StagesInvoked
        /\ results = "none"
        /\ ~returned
        /\ trace[Len(trace)].stage = "validate"
        /\ MutationStages(params) \subseteq {trace[i].stage : i \in 1..(Len(trace) - 1)}

C1_Witness ==
    /\ pc = "REJECTED"
    /\ Len(errors) >= 2
    /\ params["powertrain"] \in Plugins
    /\ params["vehicle_type"] = "car"

----------------------------------------------------------------------------
(* C4 *)

\* C4: for a hybrid request whose total_engine_power is 0, once the classifier has
\* been invoked the run has failed in it with an invalid-override error
\* (ZeroDivisionError when primary_engine_power is present), the table is as it
\* was before the classifier, the model was never constructed, the pre-run pass
\* and the solver were never invoked, and nothing is returned.
C4_HybridZeroTotalPower ==
    ( /\ params["powertrain"] \in Hybrids
      /\ "total_engine_power" \in DOMAIN params
      /\ params["total_engine_power"] = 0
      /\ "classify" \in StagesInvoked )
    =>
        /\ pc = "FAILED"
        /\ err.stage = "classify"
        /\ err.type \in InvalidOverrideError
        /\ "primary_engine_power" \in DOMAIN params => err.type = "ZeroDivisionError"
        /\ array = prev
        /\ trace[Len(trace)] = [stage |-> "classify", wrote |-> {}]
        /\ ~kwargs.constructed
        /\ StagesInvoked \cap {"construct", "pre_run", "solve"} = {}
        /\ ~returned

C4_Witness ==
    /\ pc = "FAILED"
    /\ err.type = "ZeroDivisionError"
    /\ params["powertrain"] \in Hybrids
    /\ params["total_engine_power"] = 0

----------------------------------------------------------------------------
(* C5 *)

\* C5: right after the classifier, at every coordinate of the table the combustion
\* power share is primary_engine_power / total_engine_power for a hybrid request
\* (total_engine_power > 0), 1 for a pure combustion request, 0 for a
\* battery-electric or fuel-cell request, and every other parameter is as the
\* classifier found it.
C5_CombustionPowerShare ==
    pc = "BASE_PARAMETERS_LOADED" =>
        /\ DOMAIN array = DOMAIN prev
        /\ \A pt \in DOMAIN array :
              /\ params["powertrain"] \in Hybrids =>
                    /\ params["total_engine_power"] > 0
                    /\ IsQuotient(array[pt]["combustion power share"],
                                  params["primary_engine_power"], params["total_engine_power"])
              /\ params["powertrain"] \in Combustion =>
                    array[pt]["combustion power share"] = <<1, 1>>
              /\ params["powertrain"] \in Electric =>
                    array[pt]["combustion power share"] = <<0, 1>>
              /\ \A param \in Parameters \ {"combustion power share"} :
                    array[pt][param] = prev[pt][param]

C5_Witness ==
    /\ pc = "BASE_PARAMETERS_LOADED"
    /\ params["powertrain"] \in Hybrids
    /\ array[params["powertrain"]]["combustion power share"] = <<3, 5>>
    /\ prev[params["powertrain"]]["combustion power share"] # <<3, 5>>

----------------------------------------------------------------------------
(* C6 *)

\* C6: for a request of the plug-in family the classifier never fails, whether or
\* not the engine power fields are present or positive, and leaves the whole
\* table, combustion power share included, as it found it.
C6_PluginFamilyUnclassified ==
    ( /\ params["powertrain"] \in Plugins \cup ChargeSustaining
      /\ "classify" \in StagesInvoked )
    =>
        /\ err.stage # "classify"
        /\ trace[2] = [stage |-> "classify", wrote |-> {}]
        /\ pc = "BASE_PARAMETERS_LOADED" => array = prev

C6_Witness ==
    /\ pc = "BASE_PARAMETERS_LOADED"
    /\ params["powertrain"] \in ChargeSustaining
    /\ NotSupplied(params, "total_engine_power")
    /\ array = BaseTable(params)

----------------------------------------------------------------------------
(* C7 *)

\* C7: the stages invoked so far are always an initial part of the one order
\* load, classify, construct, pre-run, solver, post-run, plug-in adjustment (if
\* and only if PHEV-d or PHEV-p), hybrid drop (if and only if car), validation,
\* impacts; a run that returns went through all of it; fuel mass is written by
\* the pre-run pass only before the solver is called, and the post-run pass
\* writes only after it.
C7_StageOrder ==
    /\ Len(trace) <= Len(ExpectedOrder(params))
    /\ \A i \in 1..Len(trace) : trace[i].stage = ExpectedOrder(params)[i]
    /\ pc = "DONE" => Len(trace) = Len(ExpectedOrder(params))
    /\ \A i, j \in 1..Len(trace) :
          /\ (trace[i].stage = "pre_run" /\ trace[j].stage = "solve") => i < j
          /\ (trace[i].stage = "solve" /\ trace[j].stage = "post_run") => i < j
          /\ (trace[i].stage = "classify" /\ trace[j].stage = "pre_run") => i < j
    /\ \A i \in 1..Len(trace) :
          trace[i].stage = "plugin" => params["powertrain"] \in Plugins
    /\ \A i \in 1..Len(trace) :
          trace[i].stage = "drop_hybrid" => params["vehicle_type"] = "car"

C7_Witness ==
    /\ pc = "DONE"
    /\ Len(trace) = 10
    /\ trace[4].wrote = {"fuel mass"}
    /\ trace[6].wrote # {}

----------------------------------------------------------------------------
(* C8 *)

\* C8: the table the post-run pass leaves is a fixed point of the pass: applying
\* it once more with the same request changes nothing, and each parameter the
\* pass wrote holds, at every powertrain, the value the request alone determines
\* (the field, divided by 100 for the two consumptions).
C8_PostRunIdempotent ==
    pc = "POST_RUN_OVERRIDES_APPLIED" =>
        /\ set_vehicle_properties_after_run(array, params) = array
        /\ \A pt \in DOMAIN array : \A f \in AfterRunWrites(params) :
              IsQuotient(array[pt][f], params[f],
                         IF f \in {"fuel consumption", "electricity consumption"} THEN 100 ELSE 1)

C8_Witness ==
    /\ pc = "POST_RUN_OVERRIDES_APPLIED"
    /\ AfterRunWrites(params) = AfterRunFields
    /\ \A pt \in DOMAIN array : \A f \in AfterRunFields : array[pt][f] # prev[pt][f]

----------------------------------------------------------------------------
(* C9 *)

\* the glider base mass of the plug-in powertrain after a second application of
\* the adjuster to the table it left; the glider write precedes the recomputation,
\* whose outcome c does not show in it
GliderTwice(c) ==
    set_properties_for_plugin(array, params, c)[params["powertrain"]]["glider base mass"]

GliderOnce == array[params["powertrain"]]["glider base mass"]

\* C9 as stated: whenever the requested curb mass differs from the solver's curb
\* mass, a second application gives a glider base mass different from the first's.
C9_AsStated ==
    ( /\ pc = "PLUGIN_ADJUSTED"
      /\ prev[params["powertrain"]]["curb mass"] # Num(params["curb mass"]) )
    => \A c \in 1..MaxMass : GliderTwice(c) # GliderOnce

\* C9 amended: each application adds (requested curb mass - the table's current
\* curb mass of the plug-in powertrain) to its glider base mass; a second
\* application therefore changes the glider base mass exactly when the curb mass
\* the first application's mass recomputation left differs from the requested one.
C9_GliderCorrectionAdditive ==
    pc = "PLUGIN_ADJUSTED" =>
        LET pt == params["powertrain"]
            requested == Num(params["curb mass"])
        IN  /\ GliderOnce =
                  FAdd(prev[pt]["glider base mass"], FSub(requested, prev[pt]["curb mass"]))
            /\ \A c \in 1..MaxMass :
                  /\ GliderTwice(c) = FAdd(GliderOnce, FSub(requested, array[pt]["curb mass"]))
                  /\ (GliderTwice(c) # GliderOnce) <=> (array[pt]["curb mass"] # requested)

C9_Witness ==
    /\ pc = "PLUGIN_ADJUSTED"
    /\ prev[params["powertrain"]]["curb mass"] # Num(params["curb mass"])
    /\ array[params["powertrain"]]["curb mass"] # Num(params["curb mass"])
    /\ GliderOnce # prev[params["powertrain"]]["glider base mass"]
    /\ \A c \in 1..MaxMass : GliderTwice(c) # GliderOnce

----------------------------------------------------------------------------
(* C10 *)

\* C10: a post-run override reaches every powertrain of the table; hence for a
\* plug-in request with range > 0 whose adjuster completes, the two ranges it
\* reads are equal, the ratio is 1, and the plug-in variant's fuel mass after the
\* adjuster is its fuel mass before it.
C10_RangeOverrideBroadcast ==
    ( /\ params["powertrain"] \in Plugins
      /\ Get(params, "range") > 0 )
    =>
        /\ pc = "POST_RUN_OVERRIDES_APPLIED" =>
              \A pt \in DOMAIN array : array[pt]["range"] = Num(params["range"])
        /\ pc = "PLUGIN_ADJUSTED" =>
              LET pt == params["powertrain"]
              IN  /\ array[Counterpart(pt)]["range"] = array[pt]["range"]
                  /\ RatioRange(array, pt) = <<1, 1>>
                  /\ array[pt]["fuel mass"] = prev[pt]["fuel mass"]

C10_Witness ==
    /\ pc = "PLUGIN_ADJUSTED"
    /\ Get(params, "range") > 0
    /\ solved[params["powertrain"]]["range"] # solved[Counterpart(params["powertrain"])]["range"]
    /\ solved[params["powertrain"]]["range"] = Num(0)

----------------------------------------------------------------------------
(* C2 *)

\* C2 as stated: for every powertrain, a post-run field that is omitted or 0
\* is never the key of a KeyError, its parameter is written by no stage after the
\* solver, and once the mutation stages are over the parameter is, at every
\* coordinate left in the table, as the solver produced it.
C2_AsStated ==
    \A f \in AfterRunFields :
        NotSupplied(params, f) =>
            /\ ~(err.type = "KeyError" /\ err.key = f)
            /\ \A i \in 1..Len(trace) :
                  trace[i].stage \in {"post_run", "plugin", "drop_hybrid"} => f \notin trace[i].wrote
            /\ MutationsDone => \A pt \in DOMAIN array : array[pt][f] = solved[pt][f]

----------------------------------------------------------------------------
(* C3 *)

\* C3 as stated: when the adjuster reaches its range ratio and the plug-in
\* variant's range is 0, the run has failed in the adjuster with a degenerate
\* ratio error, the plug-in variant's fuel mass is what it was before, and no
\* model is returned.
C3_AsStated ==
    ( /\ params["powertrain"] \in Plugins
      /\ "plugin" \in StagesInvoked
      /\ PluginFailsAt(params) = 0
      /\ solved[params["powertrain"]]["range"] = Num(0)
      /\ NotSupplied(params, "range") )
    =>
        /\ pc = "FAILED"
        /\ err.stage = "plugin"
        /\ err.type \in DegenerateRatioError
        /\ params["powertrain"] \in DOMAIN array =>
              array[params["powertrain"]]["fuel mass"] = solved[params["powertrain"]]["fuel mass"]
        /\ ~returned

====
